---- MODULE Spec2Model ----
(***************************************************************************)
(* Brand-forge asset generation pipeline: the video-job poller             *)
(* (generateRealWorldPreview, generateVisualizationVideo), the draft       *)
(* fan-out (generateDrafts), the editing session (Studio.handleUpdate-     *)
(* Draft, AssetEditor.handleUpdate / handleSpellCheck, editAsset,          *)
(* analyzeAnnotations), logo resolution (fetchLogoFromUrl, fetchImageTo-   *)
(* Base64), finalization and the gallery (Studio.handleFinalize,           *)
(* finalizeAsset), the credential precondition and request log of the     *)
(* paid operations (getClient), the ad workflow (Ads), the brand form      *)
(* (BrandManager), prompt composition (buildPrompt), the Studio selection  *)
(* and the inspiration board (Inspirations, App).  Each component has its  *)
(* own specification.                                                      *)
(***************************************************************************)
EXTENDS Integers, Sequences, FiniteSets, TLC

VARIABLES
  \* ---- video-job poller ----
  pollFn,        \* which service function is running: "none", "preview", "visualization"
  pollPc,        \* "idle", "loop" (between submit and loop exit), "done"
  operation,     \* the job handle: [done, uri]
  pollCount,     \* local pollCount of the running call
  outcome,       \* what the call gave its caller: [kind, value]
  surfaced,      \* what the caller has been shown so far: {<<cause, message>>}
  \* ---- draft fan-out ----
  draftsPc,      \* "idle", "awaiting", "returned", "threw"
  reqs,          \* status of the four generateContent promises
  resps,         \* parts of each fulfilled response
  images,        \* the array generateDrafts returned
  \* ---- editing session ----
  drafts,        \* Studio state: drafts
  editingIndex,  \* Studio state: editingIndex (0 stands for null)
  isProcessingEdit,
  editorGen,     \* identity of the mounted AssetEditor instance
  isCheckingSpelling,
  calls,         \* handler invocations in progress or finished
  latest,        \* per draft index, the image of the last successful edit
  \* ---- logo resolution ----
  logoPc,        \* "idle", "fetching" (a source request is out), "done"
  logoSource,    \* index of the source being fetched (0 before the loop)
  logoAttempts,  \* the sources requested so far in this call, in order
  logoResult,    \* what fetchLogoFromUrl gave its caller: [kind, value]
  logoFetches,   \* per request of this call: the response and what fetchImageToBase64 returned
  \* ---- finalization and gallery ----
  dnaHasLogo,    \* dna.logoImage is present
  assets,        \* App state: the gallery, newest first
  finCalls,      \* handleFinalize invocations in progress or finished
  \* ---- credential precondition ----
  apiKeyPresent, \* process.env.API_KEY is set
  paidCall,      \* the paid operation running: [op, pc, error]
  paidRun,       \* its requests: [start (length of netLog at the call), stage, pending, missing]
  netLog,        \* requests sent to the service so far, oldest first
  \* ---- ad workflow ----
  storyboard,    \* Ads state: the storyboard, or NoStoryboard
  editableScript,
  isGeneratingStoryboard,
  isGeneratingVideo,
  videoUrl,
  adStage,       \* progress of handleGenerateStoryboard
  videoRequest,  \* the arguments of the generateAdVideo call in flight or last made
  scriptEdits,   \* edits of the script textarea in this run
  messages,      \* Ads state: the chat, oldest first, each message by its kind
  isTyping,      \* a brainstormAdIdea reply is awaited
  \* ---- brand form ----
  bmPc,          \* BrandManager view: "editing", "generating", "view"
  formUrl,       \* formData.url is not empty
  logoPreview,   \* BrandManager state: "none", or the logo by origin: "manual", "blur", "extracted"
  logoError,     \* "none" or "warning"
  uploadsPending, \* FileReaders of handleLogoUpload still reading
  blurFetches,   \* handleUrlBlur calls awaiting fetchLogoFromUrl
  bmSnap,        \* closure of the handleSubmit in progress: [url, preview]
  savedDna,      \* App state dna: [saved, logoImage]
  bmLast,        \* how the last handleSubmit ended, and the logo generateBrandDNA returned
  manualLogo,    \* the user has uploaded a logo and has not removed it
  submits,       \* submits in this run
  \* ---- prompt composition ----
  promptDna,     \* the brand the prompts are built for, or NoDna
  promptInsp,    \* the inspirations of the session
  promptArgs,    \* type, subtype and variation of the last buildPrompt call
  promptOut,     \* the prompt the last buildPrompt call returned
  promptProbe,   \* one earlier call kept for comparison: [args, out]
  \* ---- studio selection ----
  studioStep,    \* Studio state step: 0 category, 1 subtype, 2 drafting, 3 selection
  selectedType,
  selectedSubtype,
  draftsRequest, \* the generateDrafts call in progress or last made: [type, subtype, clicked]
  \* ---- inspiration board ----
  boardList,  \* App state: inspirations, as the ids in list order
  preview,       \* Inspirations state: an image is loaded in the upload card
  isUploading,   \* Inspirations state: isUploading
  analysis,      \* the running handleAnalyze: [running, closure]
  inspStarted,     \* handleAnalyze calls started so far
  inspCreated,   \* ids given out by crypto.randomUUID so far
  inspAdded,     \* history: ids handed to onAddInspiration
  inspRemoved    \* history: ids handed to onRemoveInspiration

pollVars ==
  <<pollFn, pollPc, operation, pollCount, outcome, surfaced>>

draftVars ==
  <<draftsPc, reqs, resps, images>>

editVars ==
  <<drafts, editingIndex, isProcessingEdit, editorGen, isCheckingSpelling, calls, latest>>

logoVars ==
  <<logoPc, logoSource, logoAttempts, logoResult, logoFetches>>

finVars ==
  <<dnaHasLogo, assets, finCalls>>

paidVars ==
  <<apiKeyPresent, paidCall, paidRun, netLog>>

adVars ==
  <<storyboard, editableScript, isGeneratingStoryboard, isGeneratingVideo,
    videoUrl, adStage, videoRequest, scriptEdits, messages, isTyping>>

brandVars ==
  <<bmPc, formUrl, logoPreview, logoError, uploadsPending, blurFetches, bmSnap,
    savedDna, bmLast, manualLogo, submits>>

promptVars ==
  <<promptDna, promptInsp, promptArgs, promptOut, promptProbe>>

studioVars ==
  <<studioStep, selectedType, selectedSubtype, draftsRequest>>

inspVars ==
  <<boardList, preview, isUploading, analysis, inspStarted, inspCreated, inspAdded, inspRemoved>>

vars ==
  <<pollFn, pollPc, operation, pollCount, outcome, surfaced,
    draftsPc, reqs, resps, images,
    drafts, editingIndex, isProcessingEdit, editorGen, isCheckingSpelling, calls, latest,
    logoPc, logoSource, logoAttempts, logoResult, logoFetches,
    dnaHasLogo, assets, finCalls,
    apiKeyPresent, paidCall, paidRun, netLog,
    storyboard, editableScript, isGeneratingStoryboard, isGeneratingVideo,
    videoUrl, adStage, videoRequest, scriptEdits, messages, isTyping,
    bmPc, formUrl, logoPreview, logoError, uploadsPending, blurFetches, bmSnap,
    savedDna, bmLast, manualLogo, submits,
    promptDna, promptInsp, promptArgs, promptOut, promptProbe,
    studioStep, selectedType, selectedSubtype, draftsRequest,
    boardList, preview, isUploading, analysis, inspStarted, inspCreated, inspAdded, inspRemoved>>

\* what the actions of one component leave alone
notPollVars ==
  <<draftVars, editVars, logoVars, finVars, paidVars, adVars, brandVars, promptVars, studioVars, inspVars>>

notDraftVars ==
  <<pollVars, editVars, logoVars, finVars, paidVars, adVars, brandVars, promptVars, studioVars, inspVars>>

notEditVars ==
  <<pollVars, draftVars, logoVars, finVars, paidVars, adVars, brandVars, promptVars, studioVars, inspVars>>

notLogoVars ==
  <<pollVars, draftVars, editVars, finVars, paidVars, adVars, brandVars, promptVars, studioVars, inspVars>>

notPaidVars ==
  <<pollVars, draftVars, editVars, logoVars, finVars, adVars, brandVars, promptVars, studioVars, inspVars>>

notAdVars ==
  <<pollVars, draftVars, editVars, logoVars, finVars, paidVars, brandVars, promptVars, studioVars, inspVars>>

notBrandVars ==
  <<pollVars, draftVars, editVars, logoVars, finVars, paidVars, adVars, promptVars, studioVars, inspVars>>

notPromptVars ==
  <<pollVars, draftVars, editVars, logoVars, finVars, paidVars, adVars, brandVars, studioVars, inspVars>>

notStudioVars ==
  <<pollVars, draftVars, editVars, logoVars, finVars, paidVars, adVars, brandVars, promptVars, inspVars>>

notInspVars ==
  <<pollVars, draftVars, editVars, logoVars, finVars, paidVars, adVars, brandVars, promptVars, studioVars>>

\* finalization acts on the Studio's editing state as well
notFinVars ==
  <<pollVars, draftVars, logoVars, paidVars, adVars, brandVars, promptVars, studioVars, inspVars>>

(***************************************************************************)
(* Video-job poller                                                        *)
(***************************************************************************)

\* the poll limit of generateRealWorldPreview's loop
MaxPollCount ==
  60

\* the model counts re-fetches exactly up to here; beyond it the count is only
\* known to be above MaxPollCount (it cycles through MaxPollCount+1..PollCap)
PollCap ==
  62

NoUri ==
  "none"

PreviewFailedMsg ==
  "Preview generation failed"

VideoFailedMsg ==
  "Video generation failed"

ServiceErrorMsg ==
  "service error"

NoOutcome ==
  [kind |-> "none", value |-> ""]

\* what the remote can report: a result URI exists only on a completed handle
Handles ==
  { [done |-> FALSE, uri |-> NoUri],
    [done |-> TRUE, uri |-> NoUri],
    [done |-> TRUE, uri |-> "uri"] }

PollIdle ==
  /\ pollFn = "none"
  /\ pollPc = "idle"
  /\ operation = [done |-> FALSE, uri |-> NoUri]
  /\ pollCount = 0
  /\ outcome = NoOutcome

\* while (!operation.done && pollCount < 60)
PreviewLoopCond ==
  /\ ~operation.done
  /\ pollCount < MaxPollCount

\* while (!operation.done)
VisualizationLoopCond ==
  ~operation.done

LoopCond ==
  IF pollFn = "preview" THEN PreviewLoopCond ELSE VisualizationLoopCond

\* let operation = await ai.models.generateVideos(...); let pollCount = 0
Submit(fn) ==
  /\ pollPc = "idle"
  /\ pollFn' = fn
  /\ pollCount' = 0
  /\ \/ \E h \in Handles :
          /\ operation' = h
          /\ pollPc' = "loop"
          /\ outcome' = NoOutcome
     \/ /\ pollPc' = "done"
        /\ outcome' = [kind |-> "threw", value |-> ServiceErrorMsg]
        /\ UNCHANGED operation
  /\ UNCHANGED surfaced

generateRealWorldPreview ==
  /\ Submit("preview")
  /\ UNCHANGED notPollVars

generateVisualizationVideo ==
  /\ Submit("visualization")
  /\ UNCHANGED notPollVars

\* pollCount++
CountPoll(n) ==
  IF n < PollCap THEN n + 1 ELSE MaxPollCount + 1

\* one iteration: sleep 5s, re-fetch the handle, pollCount++
PollIteration ==
  /\ pollPc = "loop"
  /\ LoopCond
  /\ \/ \E h \in Handles :
          /\ operation' = h
          /\ pollCount' = CountPoll(pollCount)
          /\ UNCHANGED <<pollPc, outcome>>
     \/ /\ pollPc' = "done"
        /\ outcome' = [kind |-> "threw", value |-> ServiceErrorMsg]
        /\ UNCHANGED <<operation, pollCount>>
  /\ UNCHANGED <<pollFn, surfaced>>
  /\ UNCHANGED notPollVars

FailedMsg(fn) ==
  IF fn = "preview" THEN PreviewFailedMsg ELSE VideoFailedMsg

\* why the loop was left without a URI
Cause ==
  IF operation.done THEN "Failed" ELSE "TimedOut"

\* the extraction without its URI check
ExtractOutcomeUnchecked(fn, op) ==
  [kind |-> "returned", value |-> op.uri]

\* const videoUri = operation.response?...uri; if (!videoUri) throw ...; return uri&key
ExtractOutcome(fn, op) ==
  IF op.uri = NoUri
    THEN [kind |-> "threw", value |-> FailedMsg(fn)]
    ELSE [kind |-> "returned", value |-> op.uri]

ExtractUri ==
  /\ pollPc = "loop"
  /\ ~LoopCond
  /\ pollPc' = "done"
  /\ outcome' = ExtractOutcome(pollFn, operation)
  /\ surfaced' = IF outcome'.kind = "threw"
                   THEN surfaced \cup {<<Cause, outcome'.value>>}
                   ELSE surfaced
  /\ UNCHANGED <<pollFn, operation, pollCount>>
  /\ UNCHANGED notPollVars

\* the caller's handler has finished; the next click starts a new call
PollHandlerDone ==
  /\ pollPc = "done"
  /\ pollFn' = "none"
  /\ pollPc' = "idle"
  /\ operation' = [done |-> FALSE, uri |-> NoUri]
  /\ pollCount' = 0
  /\ outcome' = NoOutcome
  /\ UNCHANGED surfaced
  /\ UNCHANGED notPollVars

(***************************************************************************)
(* Draft fan-out: generateDrafts                                           *)
(***************************************************************************)

\* the variations array has four entries
NumVariants ==
  4

\* longest parts list of one response
MaxParts ==
  2

Variants ==
  1..NumVariants

PartKinds ==
  {"text", "inlineData"}

\* candidates?.[0]?.content?.parts of a fulfilled response (empty when absent)
Responses ==
  UNION { [1..n -> PartKinds] : n \in 0..MaxParts }

DraftsIdle ==
  /\ draftsPc = "idle"
  /\ reqs = [i \in Variants |-> "none"]
  /\ resps = [i \in Variants |-> <<>>]
  /\ images = <<>>

\* the payloads of response i: one per inlineData part, in part order
RECURSIVE PartImages(_, _, _)
PartImages(i, parts, j) ==
  IF j > Len(parts)
    THEN <<>>
    ELSE (IF parts[j] = "inlineData" THEN << <<i, j>> >> ELSE <<>>)
           \o PartImages(i, parts, j + 1)

\* responses.forEach((res, idx) => res...parts?.forEach(part => images.push(...)))
RECURSIVE CollectImages(_, _)
CollectImages(rs, i) ==
  IF i > NumVariants
    THEN <<>>
    ELSE PartImages(i, rs[i], 1) \o CollectImages(rs, i + 1)

HasImage(parts) ==
  \E j \in 1..Len(parts) : parts[j] = "inlineData"

\* const promises = variations.map(... ai.models.generateContent(...));
\* the call then waits in await Promise.all(promises)
generateDrafts ==
  /\ draftsPc = "idle"
  /\ draftsPc' = "awaiting"
  /\ reqs' = [i \in Variants |-> "pending"]
  /\ resps' = [i \in Variants |-> <<>>]
  /\ images' = <<>>
  /\ UNCHANGED notDraftVars

\* Promise.all: rejects on the first rejection, resolves once all are fulfilled
JoinAll(pc, rq, rs) ==
  IF pc # "awaiting"
    THEN [pc |-> pc, images |-> images]
    ELSE IF \E i \in Variants : rq[i] = "rejected"
      THEN [pc |-> "threw", images |-> <<>>]
      ELSE IF \A i \in Variants : rq[i] = "fulfilled"
        THEN [pc |-> "returned", images |-> CollectImages(rs, 1)]
        ELSE [pc |-> "awaiting", images |-> <<>>]

\* request i settles; the continuation of Promise.all runs with it
RequestFulfilled(i) ==
  /\ reqs[i] = "pending"
  /\ \E r \in Responses :
       /\ reqs' = [reqs EXCEPT ![i] = "fulfilled"]
       /\ resps' = [resps EXCEPT ![i] = r]
  /\ draftsPc' = JoinAll(draftsPc, reqs', resps').pc
  /\ images' = JoinAll(draftsPc, reqs', resps').images
  /\ UNCHANGED notDraftVars

RequestRejected(i) ==
  /\ reqs[i] = "pending"
  /\ reqs' = [reqs EXCEPT ![i] = "rejected"]
  /\ UNCHANGED resps
  /\ draftsPc' = JoinAll(draftsPc, reqs', resps').pc
  /\ images' = JoinAll(draftsPc, reqs', resps').images
  /\ UNCHANGED notDraftVars

\* Studio.handleGenerateDrafts has finished (setDrafts or alert); a later click calls again
DraftsHandlerDone ==
  /\ draftsPc \in {"returned", "threw"}
  /\ draftsPc' = "idle"
  /\ reqs' = [i \in Variants |-> "none"]
  /\ resps' = [i \in Variants |-> <<>>]
  /\ images' = <<>>
  /\ UNCHANGED notDraftVars

(***************************************************************************)
(* Editing session: Studio.handleUpdateDraft, AssetEditor.handleUpdate,    *)
(* AssetEditor.handleSpellCheck, editAsset, analyzeAnnotations             *)
(***************************************************************************)

\* drafts held by the Studio while editing
NumDrafts ==
  2

\* handler invocations (clicks on Apply Changes / Spell Check) in one run
MaxCalls ==
  2

\* times the editor is opened in one run
MaxOpens ==
  2

UserInstruction ==
  "user instruction"

FixInstruction ==
  "fix instruction"

RefinedInstruction ==
  "refined instruction"

NoImage ==
  [base |-> 0, edit |-> 0]

\* draft k as generateDrafts returned it (no edit applied yet)
InitialDraft(k) ==
  [base |-> k, edit |-> 0]

EditIdle ==
  /\ drafts = [k \in 1..NumDrafts |-> InitialDraft(k)]
  /\ editingIndex = 0
  /\ isProcessingEdit = FALSE
  /\ editorGen = 0
  /\ isCheckingSpelling = FALSE
  /\ calls = <<>>
  /\ latest = [k \in 1..NumDrafts |-> InitialDraft(k)]

\* a handler invocation: the closure taken at the click (drafts, editingIndex of
\* that render, the AssetEditor instance) and the progress of its editAsset call
NewCall(kind, pc) ==
  [kind |-> kind, pc |-> pc, gen |-> editorGen,
   idx |-> editingIndex, snap |-> drafts,
   mask |-> FALSE, instr |-> "", input |-> NoImage,
   analysis |-> "none", improved |-> "", editReq |-> "none",
   result |-> NoImage, audit |-> "none"]

\* editAsset issuing the edit request at once, mask or not
EditAssetStartNoAnalysis(call, mask, instruction) ==
  [call EXCEPT !.mask = mask,
               !.instr = instruction,
               !.input = call.snap[call.idx],
               !.pc = "editing",
               !.analysis = "none",
               !.editReq = instruction]

\* editAsset up to its first await: with a mask the analyzeAnnotations request
\* is issued, without one the image-edit request is issued with the instruction
EditAssetStart(call, mask, instruction) ==
  [call EXCEPT !.mask = mask,
               !.instr = instruction,
               !.input = call.snap[call.idx],
               !.pc = IF mask THEN "analyzing" ELSE "editing",
               !.analysis = IF mask THEN "pending" ELSE "none",
               !.editReq = IF mask THEN "none" ELSE instruction]

\* response.candidates?.[0]?.content?.parts?.[0]?.text || userInstruction
ImprovedPrompt(text, userInstruction) ==
  IF text = "" THEN userInstruction ELSE text

\* finalInstruction = await analyzeAnnotations(maskImage, instruction); then the
\* edit request is issued with finalInstruction
EditAssetAnalyzed(call, text) ==
  [call EXCEPT !.analysis = "done",
               !.improved = ImprovedPrompt(text, call.instr),
               !.editReq = ImprovedPrompt(text, call.instr),
               !.pc = "editing"]

\* the service returns a new image: the one it was given, marked with the call
\* that edited it
EditedImage(img, c) ==
  [img EXCEPT !.edit = c]

\* the handler has returned: its closure and the locals of editAsset are gone
FinishCall(call, pc, result) ==
  [kind |-> call.kind, pc |-> pc, gen |-> 0,
   idx |-> call.idx, snap |-> <<>>,
   mask |-> FALSE, instr |-> "", input |-> call.input,
   analysis |-> "none", improved |-> "", editReq |-> "none",
   result |-> result, audit |-> call.audit]

\* the copy of drafts without the assignment at editingIndex
NewDraftsUnassigned(snap, idx, newImage) ==
  snap

\* const newDrafts = [...drafts]; newDrafts[editingIndex] = newImage
NewDrafts(snap, idx, newImage) ==
  [snap EXCEPT ![idx] = newImage]

\* setIsCheckingSpelling(false) reaches the instance that started the audit only
SpellFlagAfter(call) ==
  IF call.kind = "spell" /\ call.gen = editorGen THEN FALSE ELSE isCheckingSpelling

\* a draft tile is clicked: setEditingIndex(i) mounts a fresh AssetEditor
OpenEditor(i) ==
  /\ editingIndex = 0
  /\ i \in DOMAIN drafts
  /\ editorGen < MaxOpens
  /\ editingIndex' = i
  /\ editorGen' = editorGen + 1
  /\ isCheckingSpelling' = FALSE
  /\ UNCHANGED <<drafts, isProcessingEdit, calls, latest>>
  /\ UNCHANGED notEditVars

\* onClose: setEditingIndex(null)
CloseEditor ==
  /\ editingIndex # 0
  /\ editingIndex' = 0
  /\ UNCHANGED <<drafts, isProcessingEdit, editorGen, isCheckingSpelling, calls, latest>>
  /\ UNCHANGED notEditVars

\* 'Apply Changes' (disabled while isProcessing): AssetEditor.handleUpdate.
\* With a canvas the composite is built once the image has loaded; without
\* one onUpdate(null, instruction) is called at once.
ClickApply ==
  /\ editingIndex # 0
  /\ ~isProcessingEdit
  /\ Len(calls) < MaxCalls
  /\ \/ /\ calls' = Append(calls, NewCall("apply", "imgload"))
        /\ UNCHANGED isProcessingEdit
     \/ /\ calls' = Append(calls, EditAssetStart(NewCall("apply", "start"), FALSE, UserInstruction))
        /\ isProcessingEdit' = TRUE
  /\ UNCHANGED <<drafts, editingIndex, editorGen, isCheckingSpelling, latest>>
  /\ UNCHANGED notEditVars

\* img.onload: await onUpdate(compositeImage, instruction), i.e. handleUpdateDraft
\* of the render of the click: setIsProcessingEdit(true); editAsset(...)
ImgLoaded(c) ==
  /\ calls[c].pc = "imgload"
  /\ calls' = [calls EXCEPT ![c] = EditAssetStart(calls[c], TRUE, UserInstruction)]
  /\ isProcessingEdit' = TRUE
  /\ UNCHANGED <<drafts, editingIndex, editorGen, isCheckingSpelling, latest>>
  /\ UNCHANGED notEditVars

\* 'Spell Check' (disabled while isCheckingSpelling): checkSpelling(imageUrl) is sent
ClickSpellCheck ==
  /\ editingIndex # 0
  /\ ~isCheckingSpelling
  /\ Len(calls) < MaxCalls
  /\ calls' = Append(calls, NewCall("spell", "spellcheck"))
  /\ isCheckingSpelling' = TRUE
  /\ UNCHANGED <<drafts, editingIndex, isProcessingEdit, editorGen, latest>>
  /\ UNCHANGED notEditVars

\* the audit reports errors: await onUpdate(null, result.fixInstruction)
SpellErrorsFound(c) ==
  /\ calls[c].pc = "spellcheck"
  /\ calls' = [calls EXCEPT ![c] =
                  EditAssetStart([calls[c] EXCEPT !.audit = "errors"], FALSE, FixInstruction)]
  /\ isProcessingEdit' = TRUE
  /\ UNCHANGED <<drafts, editingIndex, editorGen, isCheckingSpelling, latest>>
  /\ UNCHANGED notEditVars

\* an audit without errors that applies the fix all the same
SpellNoEditAutoFix(c) ==
  /\ calls[c].pc = "spellcheck"
  /\ calls' = [calls EXCEPT ![c] =
                  EditAssetStart([calls[c] EXCEPT !.audit = "clean"], FALSE, FixInstruction)]
  /\ isProcessingEdit' = TRUE
  /\ UNCHANGED <<drafts, editingIndex, editorGen, isCheckingSpelling, latest>>
  /\ UNCHANGED notEditVars

\* the audit reports no errors (hasErrors false), or checkSpelling throws
SpellNoEdit(c) ==
  /\ calls[c].pc = "spellcheck"
  /\ \E r \in {"clean", "auditfailed"} :
       calls' = [calls EXCEPT ![c] = FinishCall([calls[c] EXCEPT !.audit = r], r, NoImage)]
  /\ isCheckingSpelling' = SpellFlagAfter(calls[c])
  /\ UNCHANGED <<drafts, editingIndex, isProcessingEdit, editorGen, latest>>
  /\ UNCHANGED notEditVars

\* analyzeAnnotations returns (a text, or none and the fallback applies)
AnalyzeResponse(c) ==
  /\ calls[c].pc = "analyzing"
  /\ \E text \in {RefinedInstruction, ""} :
       calls' = [calls EXCEPT ![c] = EditAssetAnalyzed(calls[c], text)]
  /\ UNCHANGED <<drafts, editingIndex, isProcessingEdit, editorGen, isCheckingSpelling, latest>>
  /\ UNCHANGED notEditVars

\* the edit request returns an image: setDrafts(newDrafts); finally the flags drop
EditSucceeded(c) ==
  /\ calls[c].pc = "editing"
  /\ LET newImage == EditedImage(calls[c].input, c)
     IN /\ calls' = [calls EXCEPT ![c] = FinishCall(calls[c], "ok", newImage)]
        /\ drafts' = NewDrafts(calls[c].snap, calls[c].idx, newImage)
        /\ latest' = [latest EXCEPT ![calls[c].idx] = newImage]
  /\ isProcessingEdit' = FALSE
  /\ isCheckingSpelling' = SpellFlagAfter(calls[c])
  /\ UNCHANGED <<editingIndex, editorGen>>
  /\ UNCHANGED notEditVars

\* the generateContent call of analyzeAnnotations rejects: analyzeAnnotations has
\* no catch, so it rejects, editAsset rejects, and handleUpdateDraft alerts
AnalyzeRejected(c) ==
  /\ calls[c].pc = "analyzing"
  /\ calls' = [calls EXCEPT ![c] =
                  [FinishCall(calls[c], "failed", NoImage) EXCEPT !.analysis = "threw"]]
  /\ isProcessingEdit' = FALSE
  /\ isCheckingSpelling' = SpellFlagAfter(calls[c])
  /\ UNCHANGED <<drafts, editingIndex, editorGen, latest>>
  /\ UNCHANGED notEditVars

\* the edit request throws, or the edit response has no image ("Editing
\* failed"): alert("Edit failed"); finally the flags drop
EditFailed(c) ==
  /\ calls[c].pc = "editing"
  /\ calls' = [calls EXCEPT ![c] = FinishCall(calls[c], "failed", NoImage)]
  /\ isProcessingEdit' = FALSE
  /\ isCheckingSpelling' = SpellFlagAfter(calls[c])
  /\ UNCHANGED <<drafts, editingIndex, editorGen, latest>>
  /\ UNCHANGED notEditVars

(***************************************************************************)
(* Logo resolution: fetchImageToBase64, fetchLogoFromUrl                   *)
(***************************************************************************)

\* the sources array has three entries: favicon service, icon-by-domain
\* service, brand-logo-by-domain service
NumSources ==
  3

Undefined ==
  [kind |-> "undefined", value |-> 0]

NoHeader ==
  [present |-> FALSE, type |-> "", subtype |-> ""]

ContentType(type, subtype) ==
  [present |-> TRUE, type |-> type, subtype |-> subtype]

\* what fetch through the proxy can give: a network exception, or a response
\* with a status, a content-type header (absent, empty, or type/subtype) and
\* a body that response.blob() reads or fails to read
FetchResponses ==
  { [threw |-> TRUE, ok |-> FALSE, contentType |-> NoHeader, blob |-> FALSE],
    [threw |-> FALSE, ok |-> FALSE, contentType |-> ContentType("image", "png"), blob |-> TRUE],
    [threw |-> FALSE, ok |-> FALSE, contentType |-> ContentType("text", "html"), blob |-> TRUE],
    [threw |-> FALSE, ok |-> TRUE, contentType |-> NoHeader, blob |-> TRUE],
    [threw |-> FALSE, ok |-> TRUE, contentType |-> ContentType("", ""), blob |-> TRUE],
    [threw |-> FALSE, ok |-> TRUE, contentType |-> ContentType("text", "html"), blob |-> TRUE],
    [threw |-> FALSE, ok |-> TRUE, contentType |-> ContentType("image", "png"), blob |-> FALSE],
    [threw |-> FALSE, ok |-> TRUE, contentType |-> ContentType("image", "png"), blob |-> TRUE] }

\* !contentType || !contentType.startsWith("image/")
NotAnImage(ct) ==
  \/ ~ct.present
  \/ ct.type = "" /\ ct.subtype = ""
  \/ ct.type # "image"

\* fetchImageToBase64 without the content-type test
FetchImageToBase64AnyType(resp, url) ==
  IF resp.threw
    THEN Undefined
    ELSE IF ~resp.ok
      THEN Undefined
      ELSE IF ~resp.blob
        THEN Undefined
        ELSE [kind |-> "image", value |-> url]

\* try { fetch; if (!response.ok) return undefined; if (not an image) return
\* undefined; blob -> data URL } catch { return undefined }
FetchImageToBase64(resp, url) ==
  IF resp.threw
    THEN Undefined
    ELSE IF ~resp.ok
      THEN Undefined
      ELSE IF NotAnImage(resp.contentType)
        THEN Undefined
        ELSE IF ~resp.blob
          THEN Undefined
          ELSE [kind |-> "image", value |-> url]

LogoIdle ==
  /\ logoPc = "idle"
  /\ logoSource = 0
  /\ logoAttempts = <<>>
  /\ logoResult = [kind |-> "none", value |-> 0]
  /\ logoFetches = <<>>

\* new URL(websiteUrl) throws and nothing catches it
InvalidUrlUncaught ==
  [kind |-> "threw", value |-> 0]

\* catch (e) { console.warn("Invalid URL for logo fetching", e); return undefined; }
InvalidUrlResult ==
  Undefined

\* fetchLogoFromUrl up to its first await: the domain is derived and the first
\* source is requested, or the URL is invalid and the catch returns undefined
fetchLogoFromUrl ==
  /\ logoPc = "idle"
  /\ \/ /\ logoPc' = "fetching"
        /\ logoSource' = 1
        /\ logoAttempts' = <<1>>
        /\ logoResult' = [kind |-> "none", value |-> 0]
     \/ /\ logoPc' = "done"
        /\ logoResult' = InvalidUrlResult
        /\ UNCHANGED <<logoSource, logoAttempts>>
  /\ logoFetches' = <<>>
  /\ UNCHANGED notLogoVars

\* the loop going on after a source has resolved
AfterFetchKeepGoing(result, source) ==
  IF source < NumSources
    THEN [pc |-> "fetching", source |-> source + 1, result |-> [kind |-> "none", value |-> 0]]
    ELSE [pc |-> "done", source |-> source, result |-> result]

\* for (const logoUrl of sources) { result = await fetchImageToBase64(logoUrl);
\* if (result) return result; } return undefined
AfterFetch(result, source) ==
  IF result.kind = "image"
    THEN [pc |-> "done", source |-> source, result |-> result]
    ELSE IF source < NumSources
      THEN [pc |-> "fetching", source |-> source + 1, result |-> [kind |-> "none", value |-> 0]]
      ELSE [pc |-> "done", source |-> source, result |-> Undefined]

\* the request to the current source settles
LogoSourceSettled ==
  /\ logoPc = "fetching"
  /\ \E resp \in FetchResponses :
       LET result == FetchImageToBase64(resp, logoSource)
           after == AfterFetch(result, logoSource)
       IN /\ logoFetches' = Append(logoFetches, [resp |-> resp, result |-> result])
          /\ logoPc' = after.pc
          /\ logoSource' = after.source
          /\ logoResult' = after.result
          /\ logoAttempts' = IF after.pc = "fetching"
                               THEN Append(logoAttempts, after.source)
                               ELSE logoAttempts
  /\ UNCHANGED notLogoVars

\* the caller has taken the result; a later blur or submit calls again
LogoHandlerDone ==
  /\ logoPc = "done"
  /\ logoPc' = "idle"
  /\ logoSource' = 0
  /\ logoAttempts' = <<>>
  /\ logoResult' = [kind |-> "none", value |-> 0]
  /\ logoFetches' = <<>>
  /\ UNCHANGED notLogoVars

(***************************************************************************)
(* Finalization and gallery: Studio.handleFinalize, finalizeAsset,         *)
(* App onAssetCreated                                                      *)
(***************************************************************************)

\* clicks on 'Finalize & Export' in one run
MaxFinalizes ==
  2

FinalizationFailedMsg ==
  "Finalization failed"

FinIdle ==
  /\ assets = <<>>
  /\ finCalls = <<>>

\* finalizeAsset sending the draft and the prompt only
FinalizePartsNoLogo(hasLogo) ==
  << [kind |-> "inlineData", ref |-> "draft"],
     [kind |-> "text", ref |-> "prompt"] >>

\* parts = [draft image, prompt]; if (dna.logoImage) push the logo image and the
\* fidelity sentence
FinalizeParts(hasLogo) ==
  << [kind |-> "inlineData", ref |-> "draft"],
     [kind |-> "text", ref |-> "prompt"] >>
  \o (IF hasLogo
        THEN << [kind |-> "inlineData", ref |-> "logo"],
                [kind |-> "text", ref |-> "fidelity"] >>
        ELSE <<>>)

\* index of the first inlineData part of a response, 0 when there is none
RECURSIVE FirstImagePart(_, _)
FirstImagePart(parts, j) ==
  IF j > Len(parts)
    THEN 0
    ELSE IF parts[j] = "inlineData" THEN j ELSE FirstImagePart(parts, j + 1)

\* finalizeAsset returning whatever part comes first
FinalizeAssetResultUnchecked(parts) ==
  [kind |-> "returned", value |-> 1]

\* for (const part of ...parts || []) if (part.inlineData) return ...;
\* throw new Error("Finalization failed")
FinalizeAssetResult(parts) ==
  IF FirstImagePart(parts, 1) = 0
    THEN [kind |-> "threw", value |-> 0]
    ELSE [kind |-> "returned", value |-> FirstImagePart(parts, 1)]

\* the GeneratedAsset built by handleFinalize call c
NewAsset(c, draft, part) ==
  [id |-> c, url |-> [draft |-> draft, part |-> part], isDraft |-> FALSE]

\* onAssetCreated of the render of the click: setAssets([asset, ...assets])
AssetCreated(asset, snapAssets) ==
  <<asset>> \o snapAssets

\* 'Finalize & Export' (never disabled): handleFinalize of the current render;
\* the key check is awaited, then finalizeAsset(dna, drafts[editingIndex],
\* selectedSubtype) sends its request
ClickFinalize ==
  /\ editingIndex # 0
  /\ editingIndex \in DOMAIN drafts
  /\ Len(finCalls) < MaxFinalizes
  /\ finCalls' = Append(finCalls,
                   [pc |-> "pending", idx |-> editingIndex,
                    draft |-> drafts[editingIndex], snapAssets |-> assets,
                    parts |-> FinalizeParts(dnaHasLogo), respImage |-> 0])
  /\ isProcessingEdit' = TRUE
  /\ UNCHANGED <<drafts, editingIndex, editorGen, isCheckingSpelling, calls, latest>>
  /\ UNCHANGED <<dnaHasLogo, assets>>
  /\ UNCHANGED notFinVars

\* the handler has returned: its closure is gone; of the response, the place
\* of its first image part is kept (0 for none)
FinishFinalize(call, pc, resp) ==
  [call EXCEPT !.pc = pc, !.respImage = FirstImagePart(resp, 1), !.snapAssets = <<>>]

\* the finalize request returns: with an image the asset is created and the
\* Studio is reset (setStep(0); setDrafts([]); setEditingIndex(null)); without
\* one finalizeAsset throws and handleFinalize alerts
FinalizeSettled(c) ==
  /\ finCalls[c].pc = "pending"
  /\ \E resp \in Responses :
       LET r == FinalizeAssetResult(resp)
       IN IF r.kind = "returned"
            THEN /\ finCalls' = [finCalls EXCEPT ![c] = FinishFinalize(finCalls[c], "ok", resp)]
                 /\ assets' = AssetCreated(NewAsset(c, finCalls[c].draft, r.value),
                                           finCalls[c].snapAssets)
                 /\ drafts' = <<>>
                 /\ editingIndex' = 0
            ELSE /\ finCalls' = [finCalls EXCEPT ![c] = FinishFinalize(finCalls[c], "failed", resp)]
                 /\ UNCHANGED <<assets, drafts, editingIndex>>
  /\ isProcessingEdit' = FALSE
  /\ UNCHANGED <<editorGen, isCheckingSpelling, calls, latest>>
  /\ UNCHANGED dnaHasLogo
  /\ UNCHANGED notFinVars

\* the finalize request rejects: alert("Finalization failed")
FinalizeRejected(c) ==
  /\ finCalls[c].pc = "pending"
  /\ finCalls' = [finCalls EXCEPT ![c] = FinishFinalize(finCalls[c], "rejected", <<>>)]
  /\ isProcessingEdit' = FALSE
  /\ UNCHANGED <<drafts, editingIndex, editorGen, isCheckingSpelling, calls, latest>>
  /\ UNCHANGED <<dnaHasLogo, assets>>
  /\ UNCHANGED notFinVars

\* after a finalization the Studio is back at the category step; picking a
\* subtype generates drafts again: setDrafts(results); setStep(3)
DraftsRegenerated ==
  /\ drafts = <<>>
  /\ editingIndex = 0
  /\ drafts' = [k \in 1..NumDrafts |-> InitialDraft(k)]
  /\ latest' = [k \in 1..NumDrafts |-> InitialDraft(k)]
  /\ UNCHANGED <<editingIndex, isProcessingEdit, editorGen, isCheckingSpelling, calls>>
  /\ UNCHANGED finVars
  /\ UNCHANGED notFinVars

(***************************************************************************)
(* Credential precondition: getClient at the head of every paid operation  *)
(***************************************************************************)

\* requests kept in the log of one run
MaxNetLog ==
  6

ApiKeyMissingMsg ==
  "API Key not found. Please select a key."

PaidOps ==
  {"generateDrafts", "editAsset", "finalizeAsset",
   "generateRealWorldPreview", "generateVisualizationVideo"}

\* the operations that end with the response to a generateContent request
ImageOps ==
  {"generateDrafts", "editAsset", "finalizeAsset"}

EditingFailedMsg ==
  "Editing failed"

NoRun ==
  [start |-> 0, stage |-> "none", pending |-> {}, missing |-> {}]

PaidIdle ==
  /\ apiKeyPresent = FALSE
  /\ paidCall = [op |-> "none", pc |-> "idle", error |-> ""]
  /\ paidRun = NoRun
  /\ netLog = <<>>

\* a client built without looking at the key
GetClientUnchecked(keyPresent) ==
  [kind |-> "client", error |-> ""]

\* const key = apiKey || process.env.API_KEY; if (!key) throw new Error(...)
GetClient(keyPresent) ==
  IF keyPresent
    THEN [kind |-> "client", error |-> ""]
    ELSE [kind |-> "threw", error |-> ApiKeyMissingMsg]

\* one outbound request: the operation that sends it, the client method, and
\* for generateDrafts the variation it is for (1 for the other operations)
Request(op, request, variant) ==
  [op |-> op, request |-> request, variant |-> variant]

\* the requests an operation sends before its first await, after getClient():
\* generateDrafts maps its four variations to generateContent calls; editAsset
\* sends the analyzeAnnotations request (mask) or the edit request; the others
\* send one generateContent / generateVideos request
FirstRequests(op, mask) ==
  IF op = "generateDrafts"
    THEN [i \in 1..NumVariants |-> Request(op, "generateContent", i)]
    ELSE IF op = "editAsset"
      THEN IF mask
             THEN << Request("analyzeAnnotations", "generateContent", 1) >>
             ELSE << Request(op, "generateContent", 1) >>
      ELSE IF op = "finalizeAsset"
        THEN << Request(op, "generateContent", 1) >>
        ELSE << Request(op, "generateVideos", 1) >>

\* a response without payload answered by sending the request again
ReissueOnEmpty(op, variant, payload) ==
  IF payload THEN <<>> ELSE << Request(op, "generateContent", variant) >>

\* what an operation sends after the response to a generation request: nothing,
\* with or without payload (no loop and no second generateContent call follows
\* the await in generateDrafts, editAsset or finalizeAsset)
Reissue(op, variant, payload) ==
  <<>>

\* the end of an image operation once all its responses are in: generateDrafts
\* returns the images it got; editAsset and finalizeAsset throw without an image
ImageOpEnd(op, missing) ==
  IF op = "generateDrafts" \/ missing = {}
    THEN [pc |-> "returned", error |-> ""]
    ELSE [pc |-> "threw",
          error |-> IF op = "editAsset" THEN EditingFailedMsg ELSE FinalizationFailedMsg]

\* window.aistudio.openSelectKey(): the host puts a key in place
SelectKey ==
  /\ ~apiKeyPresent
  /\ paidCall.pc = "idle"
  /\ apiKeyPresent' = TRUE
  /\ UNCHANGED <<paidCall, paidRun, netLog>>
  /\ UNCHANGED notPaidVars

\* a paid operation is called: const ai = getClient() is its first statement
CallPaid(op) ==
  /\ paidCall.pc = "idle"
  /\ \E mask \in BOOLEAN :
       LET client == GetClient(apiKeyPresent)
           sent == FirstRequests(op, mask)
           later == IF op = "editAsset" /\ mask THEN 1 ELSE 0
       IN IF client.kind = "threw"
            THEN /\ paidCall' = [op |-> op, pc |-> "threw", error |-> client.error]
                 /\ paidRun' = [NoRun EXCEPT !.start = Len(netLog)]
                 /\ UNCHANGED netLog
            ELSE /\ Len(netLog) + Len(sent) + later <= MaxNetLog
                 /\ paidCall' = [op |-> op, pc |-> "awaiting", error |-> ""]
                 /\ paidRun' = [start |-> Len(netLog),
                                stage |-> IF later = 1 THEN "analysis" ELSE "generation",
                                pending |-> {sent[k].variant : k \in 1..Len(sent)},
                                missing |-> {}]
                 /\ netLog' = netLog \o sent
  /\ UNCHANGED apiKeyPresent
  /\ UNCHANGED notPaidVars

\* analyzeAnnotations returns inside editAsset: the edit request is sent
PaidAnalysisReturned ==
  /\ paidCall.pc = "awaiting"
  /\ paidRun.stage = "analysis"
  /\ paidRun' = [paidRun EXCEPT !.stage = "generation"]
  /\ netLog' = Append(netLog, Request(paidCall.op, "generateContent", 1))
  /\ UNCHANGED <<apiKeyPresent, paidCall>>
  /\ UNCHANGED notPaidVars

\* the response to the generation request of variant v arrives, with an image
\* or without one
PaidResponse(v) ==
  /\ paidCall.pc = "awaiting"
  /\ paidCall.op \in ImageOps
  /\ paidRun.stage = "generation"
  /\ v \in paidRun.pending
  /\ \E payload \in BOOLEAN :
       LET again == Reissue(paidCall.op, v, payload)
           pending == IF again = <<>> THEN paidRun.pending \ {v} ELSE paidRun.pending
           missing == IF payload \/ again # <<>>
                        THEN paidRun.missing
                        ELSE paidRun.missing \cup {v}
           end == ImageOpEnd(paidCall.op, missing)
       IN /\ Len(netLog) + Len(again) <= MaxNetLog
          /\ netLog' = netLog \o again
          /\ paidRun' = [paidRun EXCEPT !.pending = pending, !.missing = missing]
          /\ paidCall' = IF pending = {}
                           THEN [paidCall EXCEPT !.pc = end.pc, !.error = end.error]
                           ELSE paidCall
  /\ UNCHANGED apiKeyPresent
  /\ UNCHANGED notPaidVars

\* a request of an image operation rejects: the operation rejects with it
PaidRejected ==
  /\ paidCall.pc = "awaiting"
  /\ paidCall.op \in ImageOps
  /\ paidCall' = [paidCall EXCEPT !.pc = "threw", !.error = ServiceErrorMsg]
  /\ UNCHANGED <<apiKeyPresent, paidRun, netLog>>
  /\ UNCHANGED notPaidVars

\* the operation has ended (result or error; the video operations go on to
\* poll their job) and its caller's handler returns
PaidCallDone ==
  /\ \/ paidCall.pc \in {"threw", "returned"}
     \/ paidCall.pc = "awaiting" /\ paidCall.op \notin ImageOps
  /\ paidCall' = [op |-> "none", pc |-> "idle", error |-> ""]
  /\ paidRun' = NoRun
  /\ UNCHANGED <<apiKeyPresent, netLog>>
  /\ UNCHANGED notPaidVars

(***************************************************************************)
(* Ad workflow: Ads.handleGenerateStoryboard, the script textarea,         *)
(* Ads.handleGenerateVideo, Ads.handleReset                                *)
(***************************************************************************)

\* storyboards generated in one run
MaxStoryboards ==
  2

\* edits of the script textarea in one run
MaxScriptEdits ==
  3

\* messages kept in the chat in one run
MaxMessages ==
  8

NoStoryboard ==
  [script |-> [by |-> "none", n |-> 0], keyframes |-> 0]

NoScript ==
  [by |-> "none", n |-> 0]

\* useState('') of editableScript
EmptyScript ==
  [by |-> "empty", n |-> 0]

NoVideoRequest ==
  [script |-> NoScript, keyframes |-> 0]

\* the Ads component once mounted: the greeting effect has run
AdsIdle ==
  /\ storyboard = NoStoryboard
  /\ editableScript = EmptyScript
  /\ isGeneratingStoryboard = FALSE
  /\ isGeneratingVideo = FALSE
  /\ videoUrl = 0
  /\ adStage = [pc |-> "idle", n |-> 0, script |-> NoScript, outcome |-> "none"]
  /\ videoRequest = NoVideoRequest
  /\ scriptEdits = 0
  /\ messages = <<"greeting">>
  /\ isTyping = FALSE

\* setMessages(prev => [...prev, message])
Post(kind) ==
  Append(messages, kind)

CanPost ==
  Len(messages) < MaxMessages

\* the send button (disabled while isTyping): handleSendMessage posts the user's
\* message and awaits brainstormAdIdea
SendMessage ==
  /\ ~isTyping
  /\ CanPost
  /\ messages' = Post("user")
  /\ isTyping' = TRUE
  /\ UNCHANGED <<storyboard, editableScript, isGeneratingStoryboard, isGeneratingVideo,
                 videoUrl, adStage, videoRequest, scriptEdits>>
  /\ UNCHANGED notAdVars

\* brainstormAdIdea returns or throws: the reply or the apology is posted
ReplyArrived ==
  /\ isTyping
  /\ CanPost
  /\ \E kind \in {"assistant", "apology"} : messages' = Post(kind)
  /\ isTyping' = FALSE
  /\ UNCHANGED <<storyboard, editableScript, isGeneratingStoryboard, isGeneratingVideo,
                 videoUrl, adStage, videoRequest, scriptEdits>>
  /\ UNCHANGED notAdVars

\* 'Generate Storyboard' (shown with more than one message and no storyboard,
\* disabled while one is generated): setStoryboard(null); setVideoUrl(null);
\* the progress message is posted and generateVoiceoverScript is sent
ClickGenerateStoryboard ==
  /\ Len(messages) > 1
  /\ storyboard = NoStoryboard
  /\ ~isGeneratingStoryboard
  /\ adStage.n < MaxStoryboards
  /\ CanPost
  /\ isGeneratingStoryboard' = TRUE
  /\ storyboard' = NoStoryboard
  /\ videoUrl' = 0
  /\ adStage' = [pc |-> "script", n |-> adStage.n + 1, script |-> NoScript,
                 outcome |-> "none"]
  /\ messages' = Post("progress")
  /\ UNCHANGED <<editableScript, isGeneratingVideo, videoRequest, scriptEdits, isTyping>>
  /\ UNCHANGED notAdVars

\* const script = await generateVoiceoverScript(...); the keyframe message is
\* posted and generateAdKeyframes is sent
ScriptReturned ==
  /\ adStage.pc = "script"
  /\ CanPost
  /\ adStage' = [adStage EXCEPT !.pc = "keyframes",
                                !.script = [by |-> "generated", n |-> adStage.n]]
  /\ messages' = Post("keyframes")
  /\ UNCHANGED <<storyboard, editableScript, isGeneratingStoryboard, isGeneratingVideo,
                 videoUrl, videoRequest, scriptEdits, isTyping>>
  /\ UNCHANGED notAdVars

\* const keyframes = await generateAdKeyframes(...); setStoryboard({...});
\* setEditableScript(script); the confirmation is posted; finally
\* setIsGeneratingStoryboard(false)
KeyframesReturned ==
  /\ adStage.pc = "keyframes"
  /\ CanPost
  /\ storyboard' = [script |-> adStage.script, keyframes |-> adStage.n]
  /\ editableScript' = adStage.script
  /\ isGeneratingStoryboard' = FALSE
  /\ adStage' = [adStage EXCEPT !.pc = "idle", !.script = NoScript, !.outcome = "ok"]
  /\ messages' = Post("confirm")
  /\ UNCHANGED <<isGeneratingVideo, videoUrl, videoRequest, scriptEdits, isTyping>>
  /\ UNCHANGED notAdVars

\* either stage throws: the catch posts the error message; finally the flag drops
StoryboardFailed ==
  /\ adStage.pc \in {"script", "keyframes"}
  /\ CanPost
  /\ isGeneratingStoryboard' = FALSE
  /\ adStage' = [adStage EXCEPT !.pc = "idle", !.script = NoScript, !.outcome = "failed"]
  /\ messages' = Post("error")
  /\ UNCHANGED <<storyboard, editableScript, isGeneratingVideo, videoUrl, videoRequest,
                 scriptEdits, isTyping>>
  /\ UNCHANGED notAdVars

\* the textarea (shown with the storyboard): onChange setEditableScript(value)
EditScript ==
  /\ storyboard # NoStoryboard
  /\ scriptEdits < MaxScriptEdits
  /\ scriptEdits' = scriptEdits + 1
  /\ editableScript' = [by |-> "user", n |-> scriptEdits + 1]
  /\ UNCHANGED <<storyboard, isGeneratingStoryboard, isGeneratingVideo, videoUrl, adStage,
                 videoRequest, messages, isTyping>>
  /\ UNCHANGED notAdVars

\* handleGenerateVideo passing the storyboard's own script
VideoScriptArgOriginal(editable, sb) ==
  sb.script

\* generateAdVideo(dna, editableScript, storyboard.keyframes, ...): the script argument
VideoScriptArg(editable, sb) ==
  editable

\* the request generateAdVideo builds from its arguments
AdVideoRequest(script, keyframes) ==
  [script |-> script, keyframes |-> keyframes]

\* a video button that works without a storyboard
ClickGenerateVideoUnguarded ==
  /\ videoUrl = 0
  /\ ~isGeneratingVideo
  /\ isGeneratingVideo' = TRUE
  /\ videoUrl' = 0
  /\ videoRequest' = AdVideoRequest(VideoScriptArg(editableScript, storyboard),
                                    storyboard.keyframes)
  /\ UNCHANGED <<storyboard, editableScript, isGeneratingStoryboard, adStage, scriptEdits,
                 messages, isTyping>>
  /\ UNCHANGED notAdVars

\* 'Generate Full Video' (shown with a storyboard and no video, disabled while
\* generating): if (!storyboard) return; setVideoUrl(null); generateAdVideo(...)
ClickGenerateVideo ==
  /\ storyboard # NoStoryboard
  /\ videoUrl = 0
  /\ ~isGeneratingVideo
  /\ isGeneratingVideo' = TRUE
  /\ videoUrl' = 0
  /\ videoRequest' = AdVideoRequest(VideoScriptArg(editableScript, storyboard),
                                    storyboard.keyframes)
  /\ UNCHANGED <<storyboard, editableScript, isGeneratingStoryboard, adStage, scriptEdits,
                 messages, isTyping>>
  /\ UNCHANGED notAdVars

\* generateAdVideo returns: setVideoUrl(video); the success message is posted;
\* finally the flag drops
VideoReturned ==
  /\ isGeneratingVideo
  /\ CanPost
  /\ videoUrl' = videoRequest.keyframes
  /\ isGeneratingVideo' = FALSE
  /\ messages' = Post("success")
  /\ UNCHANGED <<storyboard, editableScript, isGeneratingStoryboard, adStage, videoRequest,
                 scriptEdits, isTyping>>
  /\ UNCHANGED notAdVars

\* generateAdVideo throws: the catch posts the error message; finally the flag drops
VideoFailed ==
  /\ isGeneratingVideo
  /\ CanPost
  /\ isGeneratingVideo' = FALSE
  /\ messages' = Post("error")
  /\ UNCHANGED <<storyboard, editableScript, isGeneratingStoryboard, videoUrl, adStage,
                 videoRequest, scriptEdits, isTyping>>
  /\ UNCHANGED notAdVars

\* a reset that starts the chat over
ResetAdsClearingChat ==
  /\ videoUrl # 0
  /\ storyboard' = NoStoryboard
  /\ videoUrl' = 0
  /\ editableScript' = EmptyScript
  /\ messages' = <<"reset">>
  /\ UNCHANGED <<isGeneratingStoryboard, isGeneratingVideo, adStage, videoRequest,
                 scriptEdits, isTyping>>
  /\ UNCHANGED notAdVars

\* 'Start New Ad' (shown with a video): handleReset clears the storyboard, the
\* video and the script and posts the reset message
ResetAds ==
  /\ videoUrl # 0
  /\ CanPost
  /\ storyboard' = NoStoryboard
  /\ videoUrl' = 0
  /\ editableScript' = EmptyScript
  /\ messages' = Post("reset")
  /\ UNCHANGED <<isGeneratingStoryboard, isGeneratingVideo, adStage, videoRequest,
                 scriptEdits, isTyping>>
  /\ UNCHANGED notAdVars

(***************************************************************************)
(* Brand form: BrandManager.handleLogoUpload, handleUrlBlur, handleSubmit  *)
(***************************************************************************)

\* submits of the form in one run
MaxSubmits ==
  2

\* uploads being read, and blur fetches awaited, at one time
MaxPending ==
  1

NoLogo ==
  "none"

\* a logo is told by where it came from: the user's file, the fetch started on
\* URL blur, the logo generateBrandDNA extracted
AutoLogos ==
  {"blur", "extracted"}

NoSnap ==
  [url |-> FALSE, preview |-> NoLogo]

BrandIdle ==
  /\ bmPc = "editing"
  /\ formUrl = FALSE
  /\ logoPreview = NoLogo
  /\ logoError = "none"
  /\ uploadsPending = 0
  /\ blurFetches = 0
  /\ bmSnap = NoSnap
  /\ savedDna = [saved |-> FALSE, logoImage |-> NoLogo]
  /\ bmLast = [outcome |-> "none", resultLogo |-> NoLogo]
  /\ manualLogo = FALSE
  /\ submits = 0

\* the URL input: onChange sets formData.url
SetUrl ==
  /\ bmPc = "editing"
  /\ formUrl' = ~formUrl
  /\ UNCHANGED <<bmPc, logoPreview, logoError, uploadsPending, blurFetches, bmSnap,
                 savedDna, bmLast, manualLogo, submits>>
  /\ UNCHANGED notBrandVars

\* handleUrlBlur: if (formData.url && !logoPreview) fetchLogoFromUrl is awaited
UrlBlur ==
  /\ bmPc = "editing"
  /\ formUrl
  /\ logoPreview = NoLogo
  /\ blurFetches < MaxPending
  /\ blurFetches' = blurFetches + 1
  /\ UNCHANGED <<bmPc, formUrl, logoPreview, logoError, uploadsPending, bmSnap,
                 savedDna, bmLast, manualLogo, submits>>
  /\ UNCHANGED notBrandVars

\* fetchLogoFromUrl returns: if (logo) { setLogoPreview(logo); setLogoError(null) }
BlurFetched ==
  /\ blurFetches > 0
  /\ blurFetches' = blurFetches - 1
  /\ \/ /\ logoPreview' = "blur"
        /\ logoError' = "none"
     \/ UNCHANGED <<logoPreview, logoError>>
  /\ UNCHANGED <<bmPc, formUrl, uploadsPending, bmSnap, savedDna, bmLast, manualLogo, submits>>
  /\ UNCHANGED notBrandVars

\* the file input (shown without a preview): handleLogoUpload starts a FileReader
UploadLogo ==
  /\ bmPc = "editing"
  /\ logoPreview = NoLogo
  /\ uploadsPending < MaxPending
  /\ uploadsPending' = uploadsPending + 1
  /\ UNCHANGED <<bmPc, formUrl, logoPreview, logoError, blurFetches, bmSnap,
                 savedDna, bmLast, manualLogo, submits>>
  /\ UNCHANGED notBrandVars

\* reader.onloadend: setLogoPreview(reader.result); setLogoError(null)
UploadLoaded ==
  /\ uploadsPending > 0
  /\ uploadsPending' = uploadsPending - 1
  /\ logoPreview' = "manual"
  /\ logoError' = "none"
  /\ manualLogo' = TRUE
  /\ UNCHANGED <<bmPc, formUrl, blurFetches, bmSnap, savedDna, bmLast, submits>>
  /\ UNCHANGED notBrandVars

\* 'Remove' (shown with a preview): setLogoPreview(undefined)
RemoveLogo ==
  /\ bmPc = "editing"
  /\ logoPreview # NoLogo
  /\ logoPreview' = NoLogo
  /\ manualLogo' = FALSE
  /\ UNCHANGED <<bmPc, formUrl, logoError, uploadsPending, blurFetches, bmSnap,
                 savedDna, bmLast, submits>>
  /\ UNCHANGED notBrandVars

\* the form is submitted: handleSubmit of the current render up to its await
SubmitBrand ==
  /\ bmPc = "editing"
  /\ submits < MaxSubmits
  /\ submits' = submits + 1
  /\ bmPc' = "generating"
  /\ logoError' = "none"
  /\ bmSnap' = [url |-> formUrl, preview |-> logoPreview]
  /\ UNCHANGED <<formUrl, logoPreview, uploadsPending, blurFetches, savedDna, bmLast, manualLogo>>
  /\ UNCHANGED notBrandVars

\* formData.url && !result.logoImage && !logoPreview
ExtractionFailed(snap, resultLogo) ==
  /\ snap.url
  /\ resultLogo = NoLogo
  /\ snap.preview = NoLogo

\* logoImage: logoPreview || result.logoImage
FinalLogo(snap, resultLogo) ==
  IF snap.preview # NoLogo THEN snap.preview ELSE resultLogo

\* generateBrandDNA returns (with the logo it extracted, or none): the save is
\* refused with the warning, or onSave(finalDNA) stores the brand and App moves
\* to the studio tab, which unmounts the form; mounted again it shows the saved
\* brand and its logo
SynthesisReturned ==
  /\ bmPc = "generating"
  /\ \E resultLogo \in {NoLogo, "extracted"} :
       IF ExtractionFailed(bmSnap, resultLogo)
         THEN /\ logoError' = "warning"
              /\ bmPc' = "editing"
              /\ bmLast' = [outcome |-> "blocked", resultLogo |-> resultLogo]
              /\ UNCHANGED <<logoPreview, uploadsPending, blurFetches, savedDna, manualLogo>>
         ELSE /\ savedDna' = [saved |-> TRUE, logoImage |-> FinalLogo(bmSnap, resultLogo)]
              /\ logoPreview' = FinalLogo(bmSnap, resultLogo)
              /\ manualLogo' = (FinalLogo(bmSnap, resultLogo) = "manual")
              /\ bmPc' = "view"
              /\ bmLast' = [outcome |-> "saved", resultLogo |-> resultLogo]
              /\ uploadsPending' = 0
              /\ blurFetches' = 0
              /\ UNCHANGED logoError
  /\ bmSnap' = NoSnap
  /\ UNCHANGED <<formUrl, submits>>
  /\ UNCHANGED notBrandVars

\* generateBrandDNA throws: alert("Failed to create Brand DNA. Please try again.")
SynthesisFailed ==
  /\ bmPc = "generating"
  /\ bmPc' = "editing"
  /\ bmLast' = [outcome |-> "failed", resultLogo |-> NoLogo]
  /\ bmSnap' = NoSnap
  /\ UNCHANGED <<formUrl, logoPreview, logoError, uploadsPending, blurFetches,
                 savedDna, manualLogo, submits>>
  /\ UNCHANGED notBrandVars

\* 'Edit Inputs': setIsEditing(true)
EditInputs ==
  /\ bmPc = "view"
  /\ bmPc' = "editing"
  /\ UNCHANGED <<formUrl, logoPreview, logoError, uploadsPending, blurFetches, bmSnap,
                 savedDna, bmLast, manualLogo, submits>>
  /\ UNCHANGED notBrandVars

(***************************************************************************)
(* Prompt composition: buildPrompt and the variations of generateDrafts    *)
(***************************************************************************)

AssetTypes ==
  {"MERCHANDISE", "MARKETING", "DIGITAL", "VIDEO"}

PromptSubtypes ==
  {"Hoodie", "Poster"}

ColorLists ==
  { <<>>, <<"#111111">>, <<"#111111", "#eeeeee">> }

Dna(colors, hasLogo) ==
  [name |-> "brand name", colors |-> colors, typography |-> "typography",
   visualEssence |-> "visual essence", keywords |-> <<"kw1", "kw2", "kw3">>,
   logoImage |-> hasLogo]

Dnas ==
  { Dna(colors, hasLogo) : colors \in ColorLists, hasLogo \in BOOLEAN }

InspirationLists ==
  { <<>>, << [extractedCues |-> <<"grainy", "neon">>] >> }

NoDna ==
  [name |-> "none"]

NoArgs ==
  [type |-> "none", subtype |-> "none", variant |-> 0]

NoProbe ==
  [args |-> NoArgs, out |-> <<>>]

PromptIdle ==
  /\ promptDna = NoDna
  /\ promptInsp = <<>>
  /\ promptArgs = NoArgs
  /\ promptOut = <<>>
  /\ promptProbe = NoProbe

\* a prompt is the sequence of its interpolated clauses: what the clause is
\* about and the interpolated text, an empty sequence for the empty string
Clause(label, value) ==
  [label |-> label, value |-> value]

\* the clauses that state a colour
ColorLabels ==
  {"Base fabric/material color", "Accent color in design", "brand colors", "Colors",
   "Emphasize the brand colors"}

\* list.slice(0, n)
Take(list, n) ==
  SubSeq(list, 1, IF Len(list) < n THEN Len(list) ELSE n)

\* dna.colors[0] || "white"
PrimaryColor(dna) ==
  IF Len(dna.colors) >= 1 THEN dna.colors[1] ELSE "white"

\* dna.colors[1] || "black"
AccentColor(dna) ==
  IF Len(dna.colors) >= 2 THEN dna.colors[2] ELSE "black"

LogoInstruction(dna) ==
  IF dna.logoImage THEN "incorporate the provided logo" ELSE "brand name stylized as a logo"

\* getGarmentDetails: a static table on the lower-cased subtype
GarmentDetails(subtype) ==
  IF subtype = "Hoodie" THEN "hoodie details"
  ELSE IF subtype = "T-Shirt" THEN "t-shirt details"
  ELSE IF subtype = "Cap" THEN "cap details"
  ELSE IF subtype = "Tote Bag" THEN "tote details"
  ELSE "a generic item"

\* inspirations.map(i => i.extractedCues.join(", ")).join("; ")
InspirationCues(inspirations) ==
  [k \in 1..Len(inspirations) |-> inspirations[k].extractedCues]

\* the switch on type
BasePrompt(dna, type, subtype) ==
  IF type = "MERCHANDISE"
    THEN << Clause("item", <<subtype>>),
            Clause("garment", <<GarmentDetails(subtype)>>),
            Clause("Base fabric/material color", <<PrimaryColor(dna)>>),
            Clause("logo", <<LogoInstruction(dna)>>),
            Clause("Design vibe", <<dna.visualEssence>>),
            Clause("Accent color in design", <<AccentColor(dna)>>) >>
    ELSE IF type = "MARKETING"
      THEN << Clause("item", <<subtype>>),
              Clause("brand", <<dna.name>>),
              Clause("logo", <<LogoInstruction(dna)>>),
              Clause("brand colors", dna.colors),
              Clause("typography", <<dna.typography>>),
              Clause("vibe", <<dna.visualEssence>>) >>
      ELSE IF type = "DIGITAL"
        THEN << Clause("item", <<subtype>>),
                Clause("brand", <<dna.name>>),
                Clause("logo", <<LogoInstruction(dna)>>),
                Clause("Colors", dna.colors),
                Clause("Vibe", <<dna.visualEssence>>) >>
        ELSE << Clause("item", <<subtype>>),
                Clause("brand", <<dna.name>>) >>

\* the instruction of variation v: Minimal, Bold, Artistic, Vibrant
VariationInstruction(v, dna, inspirations) ==
  IF v = 1
    THEN << Clause("minimal", <<"minimal, clean design">>) >>
    ELSE IF v = 2
      THEN << Clause("primary keywords", Take(dna.keywords, 2)) >>
      ELSE IF v = 3
        THEN IF Len(inspirations) > 0
               THEN << Clause("visual styles", Take(inspirations[1].extractedCues, 3)) >>
               ELSE << Clause("creative interpretation", <<dna.visualEssence>>) >>
        ELSE << Clause("Emphasize the brand colors", dna.colors) >>

\* finalPrompt: base prompt, instruction, keywords, inspiration cues
PromptBody(dna, inspirations, type, subtype, instruction) ==
  BasePrompt(dna, type, subtype)
  \o instruction
  \o << Clause("Keywords", dna.keywords),
        Clause("INSPIRATION CUES", InspirationCues(inspirations)) >>

\* a builder that answers from the last prompt of the same type
buildPromptCached(dna, inspirations, type, subtype, instruction) ==
  IF promptArgs.type = type
    THEN promptOut
    ELSE PromptBody(dna, inspirations, type, subtype, instruction)

\* buildPrompt reads its arguments and static text only
buildPrompt(dna, inspirations, type, subtype, instruction) ==
  PromptBody(dna, inspirations, type, subtype, instruction)

\* the brand and the inspirations of the session (App state, props of Studio)
LoadSession ==
  /\ promptDna = NoDna
  /\ promptDna' \in Dnas
  /\ promptInsp' \in InspirationLists
  /\ UNCHANGED <<promptArgs, promptOut, promptProbe>>
  /\ UNCHANGED notPromptVars

\* generateDrafts builds the prompt of one variation
ComposePrompt ==
  /\ promptDna # NoDna
  /\ \E type \in AssetTypes, subtype \in PromptSubtypes, v \in Variants :
       /\ promptArgs' = [type |-> type, subtype |-> subtype, variant |-> v]
       /\ promptOut' = buildPrompt(promptDna, promptInsp, type, subtype,
                                   VariationInstruction(v, promptDna, promptInsp))
  /\ UNCHANGED <<promptDna, promptInsp, promptProbe>>
  /\ UNCHANGED notPromptVars

\* the last call is kept for comparison with later ones
KeepProbe ==
  /\ promptArgs # NoArgs
  /\ promptProbe = NoProbe
  /\ promptProbe' = [args |-> promptArgs, out |-> promptOut]
  /\ UNCHANGED <<promptDna, promptInsp, promptArgs, promptOut>>
  /\ UNCHANGED notPromptVars

(***************************************************************************)
(* Studio selection: category and subtype buttons, handleGenerateDrafts    *)
(***************************************************************************)

StudioTypes ==
  {"MERCHANDISE", "MARKETING", "DIGITAL"}

\* the items of a category
Items(type) ==
  IF type = "MERCHANDISE" THEN {"Hoodie", "T-Shirt", "Cap", "Tote Bag"}
  ELSE IF type = "MARKETING" THEN {"Poster", "Flyer", "Billboard", "Business Card"}
  ELSE {"Social Post", "Banner", "App Icon"}

NoRequest ==
  [type |-> "none", subtype |-> "none", clicked |-> "none"]

StudioIdle ==
  /\ studioStep = 0
  /\ selectedType = "MERCHANDISE"
  /\ selectedSubtype = ""
  /\ draftsRequest = NoRequest

\* a category button: setSelectedType(cat.id); setStep(1)
PickCategory(type) ==
  /\ studioStep = 0
  /\ selectedType' = type
  /\ studioStep' = 1
  /\ UNCHANGED <<selectedSubtype, draftsRequest>>
  /\ UNCHANGED notStudioVars

\* handleGenerateDrafts reads selectedSubtype of the render whose button was
\* clicked; setSelectedSubtype(item) takes effect with the next render
SubtypeArg(rendered, item) ==
  rendered

\* an item button: setSelectedSubtype(item); handleGenerateDrafts(), which sets
\* step 2 and calls generateDrafts(dna, inspirations, selectedType, selectedSubtype)
PickSubtype(item) ==
  /\ studioStep = 1
  /\ item \in Items(selectedType)
  /\ selectedSubtype' = item
  /\ studioStep' = 2
  /\ draftsRequest' = [type |-> selectedType,
                       subtype |-> SubtypeArg(selectedSubtype, item),
                       clicked |-> item]
  /\ UNCHANGED selectedType
  /\ UNCHANGED notStudioVars

\* 'Back' at the subtype step, 'Cancel' at the selection step: setStep(0)
BackToCategories ==
  /\ studioStep \in {1, 3}
  /\ studioStep' = 0
  /\ UNCHANGED <<selectedType, selectedSubtype, draftsRequest>>
  /\ UNCHANGED notStudioVars

\* generateDrafts returns: setDrafts(results); setStep(3)
StudioDraftsReturned ==
  /\ studioStep = 2
  /\ studioStep' = 3
  /\ UNCHANGED <<selectedType, selectedSubtype, draftsRequest>>
  /\ UNCHANGED notStudioVars

\* generateDrafts throws: alert; setStep(1)
StudioDraftsFailed ==
  /\ studioStep = 2
  /\ studioStep' = 1
  /\ UNCHANGED <<selectedType, selectedSubtype, draftsRequest>>
  /\ UNCHANGED notStudioVars

(***************************************************************************)
(* Inspiration board: Inspirations.handleAnalyze, the remove button, App's *)
(* onAddInspiration and onRemoveInspiration                                *)
(***************************************************************************)

\* analyses started in one run
MaxAnalyses ==
  3

NoAnalysis ==
  [running |-> FALSE, closure |-> <<>>]

InspirationsIdle ==
  /\ boardList = <<>>
  /\ preview = FALSE
  /\ isUploading = FALSE
  /\ analysis = NoAnalysis
  /\ inspStarted = 0
  /\ inspCreated = 0
  /\ inspAdded = {}
  /\ inspRemoved = {}

\* inspirations.filter(i => i.id !== id)
Without(list, id) ==
  SelectSeq(list, LAMBDA i : i # id)

\* (insp) => setInspirations([...inspirations, insp]) of the render whose
\* list is closure
AddInspiration(closure, insp) ==
  Append(closure, insp)

\* (id) => setInspirations(inspirations.filter(i => i.id !== id)) of the render
\* whose list is closure
RemoveInspiration(closure, id) ==
  Without(closure, id)

\* the file input (shown without a preview): reader.onloadend sets the preview
ChooseFile ==
  /\ ~preview
  /\ preview' = TRUE
  /\ UNCHANGED <<boardList, isUploading, analysis, inspStarted, inspCreated, inspAdded, inspRemoved>>
  /\ UNCHANGED notInspVars

\* the trash button on the preview: setPreview(null)
DropPreview ==
  /\ preview
  /\ preview' = FALSE
  /\ UNCHANGED <<boardList, isUploading, analysis, inspStarted, inspCreated, inspAdded, inspRemoved>>
  /\ UNCHANGED notInspVars

\* 'Extract Cues' (disabled without a preview or while uploading): handleAnalyze
\* of this render, with this render's onAddInspiration, awaits analyzeInspiration
ClickAnalyze ==
  /\ preview
  /\ ~isUploading
  /\ inspStarted < MaxAnalyses
  /\ inspStarted' = inspStarted + 1
  /\ isUploading' = TRUE
  /\ analysis' = [running |-> TRUE, closure |-> boardList]
  /\ UNCHANGED <<boardList, preview, inspCreated, inspAdded, inspRemoved>>
  /\ UNCHANGED notInspVars

\* analyzeInspiration returns: onAddInspiration(newInsp); setPreview(null);
\* finally setIsUploading(false)
AnalysisReturned ==
  /\ analysis.running
  /\ inspCreated' = inspCreated + 1
  /\ boardList' = AddInspiration(analysis.closure, inspCreated + 1)
  /\ inspAdded' = inspAdded \cup {inspCreated + 1}
  /\ preview' = FALSE
  /\ isUploading' = FALSE
  /\ analysis' = NoAnalysis
  /\ UNCHANGED <<inspStarted, inspRemoved>>
  /\ UNCHANGED notInspVars

\* analyzeInspiration throws: alert; finally setIsUploading(false)
AnalysisFailed ==
  /\ analysis.running
  /\ isUploading' = FALSE
  /\ analysis' = NoAnalysis
  /\ UNCHANGED <<boardList, preview, inspStarted, inspCreated, inspAdded, inspRemoved>>
  /\ UNCHANGED notInspVars

\* the trash button of a card of the current render: onRemoveInspiration(insp.id)
ClickRemove(id) ==
  /\ \E k \in 1..Len(boardList) : boardList[k] = id
  /\ boardList' = RemoveInspiration(boardList, id)
  /\ inspRemoved' = inspRemoved \cup {id}
  /\ UNCHANGED <<preview, isUploading, analysis, inspStarted, inspCreated, inspAdded>>
  /\ UNCHANGED notInspVars

(***************************************************************************)
(* Specifications                                                          *)
(***************************************************************************)

\* everything but the brand's logo, which is fixed for a session
InitNoBrand ==
  /\ PollIdle
  /\ surfaced = {}
  /\ DraftsIdle
  /\ EditIdle
  /\ LogoIdle
  /\ FinIdle
  /\ PaidIdle
  /\ AdsIdle
  /\ BrandIdle
  /\ PromptIdle
  /\ StudioIdle
  /\ InspirationsIdle

Init ==
  /\ InitNoBrand
  /\ dnaHasLogo = FALSE

\* a session of a brand with or without a logo
InitAnyBrand ==
  /\ InitNoBrand
  /\ dnaHasLogo \in BOOLEAN

NextPoll ==
  \/ generateRealWorldPreview
  \/ generateVisualizationVideo
  \/ PollIteration
  \/ ExtractUri
  \/ PollHandlerDone

SpecPoll ==
  Init /\ [][NextPoll]_vars

\* every sleep and every status re-fetch returns, and a left loop goes on to the extraction
FairSpecPoll ==
  SpecPoll /\ WF_vars(PollIteration) /\ WF_vars(ExtractUri)

NextDrafts ==
  \/ generateDrafts
  \/ \E i \in Variants : RequestFulfilled(i)
  \/ \E i \in Variants : RequestRejected(i)
  \/ DraftsHandlerDone

SpecDrafts ==
  Init /\ [][NextDrafts]_vars

NextEdit ==
  \/ \E i \in 1..NumDrafts : OpenEditor(i)
  \/ CloseEditor
  \/ ClickApply
  \/ ClickSpellCheck
  \/ \E c \in 1..Len(calls) : ImgLoaded(c)
  \/ \E c \in 1..Len(calls) : SpellErrorsFound(c)
  \/ \E c \in 1..Len(calls) : SpellNoEdit(c)
  \/ \E c \in 1..Len(calls) : AnalyzeResponse(c)
  \/ \E c \in 1..Len(calls) : AnalyzeRejected(c)
  \/ \E c \in 1..Len(calls) : EditSucceeded(c)
  \/ \E c \in 1..Len(calls) : EditFailed(c)

SpecEdit ==
  Init /\ [][NextEdit]_vars

NextLogo ==
  \/ fetchLogoFromUrl
  \/ LogoSourceSettled
  \/ LogoHandlerDone

SpecLogo ==
  Init /\ [][NextLogo]_vars

NextFinalize ==
  \/ \E i \in 1..NumDrafts : OpenEditor(i)
  \/ CloseEditor
  \/ ClickFinalize
  \/ \E c \in 1..Len(finCalls) : FinalizeSettled(c)
  \/ \E c \in 1..Len(finCalls) : FinalizeRejected(c)
  \/ DraftsRegenerated

SpecFinalize ==
  InitAnyBrand /\ [][NextFinalize]_vars

NextPaid ==
  \/ SelectKey
  \/ \E op \in PaidOps : CallPaid(op)
  \/ PaidAnalysisReturned
  \/ \E v \in Variants : PaidResponse(v)
  \/ PaidRejected
  \/ PaidCallDone

SpecPaid ==
  Init /\ [][NextPaid]_vars

NextAds ==
  \/ SendMessage
  \/ ReplyArrived
  \/ ClickGenerateStoryboard
  \/ ScriptReturned
  \/ KeyframesReturned
  \/ StoryboardFailed
  \/ EditScript
  \/ ClickGenerateVideo
  \/ VideoReturned
  \/ VideoFailed
  \/ ResetAds

SpecAds ==
  Init /\ [][NextAds]_vars

NextBrand ==
  \/ SetUrl
  \/ UrlBlur
  \/ BlurFetched
  \/ UploadLogo
  \/ UploadLoaded
  \/ RemoveLogo
  \/ SubmitBrand
  \/ SynthesisReturned
  \/ SynthesisFailed
  \/ EditInputs

SpecBrand ==
  Init /\ [][NextBrand]_vars

NextPrompt ==
  \/ LoadSession
  \/ ComposePrompt
  \/ KeepProbe

SpecPrompt ==
  Init /\ [][NextPrompt]_vars

NextStudio ==
  \/ \E type \in StudioTypes : PickCategory(type)
  \/ \E item \in Items(selectedType) : PickSubtype(item)
  \/ BackToCategories
  \/ StudioDraftsReturned
  \/ StudioDraftsFailed

SpecStudio ==
  Init /\ [][NextStudio]_vars

NextInspirations ==
  \/ ChooseFile
  \/ DropPreview
  \/ ClickAnalyze
  \/ AnalysisReturned
  \/ AnalysisFailed
  \/ \E id \in 1..MaxAnalyses : ClickRemove(id)

SpecInspirations ==
  Init /\ [][NextInspirations]_vars

(***************************************************************************)
(* Properties                                                              *)
(***************************************************************************)

\* C1: in every video polling sequence, of generateRealWorldPreview and of
\* generateVisualizationVideo alike, the number of status re-fetches for one
\* submitted job never exceeds 60.
PollCountBounded ==
  pollCount <= MaxPollCount

\* C2: a polling call whose handle never reports completion still terminates,
\* and ends in an error outcome; it never polls forever.
PollingTerminates ==
  (pollPc = "loop") ~> (operation.done \/ (pollPc = "done" /\ outcome.kind = "threw"))

\* C3: the error the caller sees when the poll limit was reached on a handle
\* that is still not done differs from the error it sees when the job has
\* completed without a result: no message is shared by the two causes.
TimedOutDistinctFromFailed ==
  \A a \in surfaced : \A b \in surfaced : a[2] = b[2] => a[1] = b[1]

\* C4: a call that ended on a handle reporting completion without a result URI
\* ended by raising an error; a call returns only the URI of its handle.
DoneWithoutUriFails ==
  /\ (pollPc = "done" /\ operation.done /\ operation.uri = NoUri)
        => outcome.kind = "threw"
  /\ outcome.kind = "returned"
        => (operation.uri # NoUri /\ outcome.value = operation.uri)

DoneWithoutUriWitness ==
  /\ pollPc = "done"
  /\ operation.done
  /\ operation.uri = NoUri
  /\ outcome = [kind |-> "threw", value |-> FailedMsg(pollFn)]

\* C5: a generateDrafts call that returns yields at most 4 images, and at least
\* one image whenever some variant request produced an image payload.
DraftCountBounded ==
  draftsPc = "returned" =>
    /\ Len(images) <= NumVariants
    /\ (\E i \in Variants : HasImage(resps[i])) => Len(images) >= 1

\* C6: a generateDrafts call in which no variant request returned an image
\* payload does not complete with a result (it raises to the caller).
AllFailureRaises ==
  draftsPc = "returned" => \E i \in Variants : HasImage(resps[i])

\* C7: generateDrafts completes only after all four variant requests have
\* settled, and a request that failed or carried no image is merely omitted:
\* every payload of a request that succeeded is in the returned array.
WaitForAllKeepSuccesses ==
  draftsPc \in {"returned", "threw"} =>
    /\ \A i \in Variants : reqs[i] \in {"fulfilled", "rejected"}
    /\ \A i \in Variants : \A j \in 1..Len(resps[i]) :
         (reqs[i] = "fulfilled" /\ resps[i][j] = "inlineData")
           => /\ draftsPc = "returned"
              /\ \E k \in 1..Len(images) : images[k] = <<i, j>>

InFlight(c) ==
  calls[c].pc \in {"analyzing", "editing"}

\* C8: within one editing session edits are strictly ordered: an editAsset call
\* in flight was given the image of the last successful edit of its draft (the
\* original draft before any edit), and no two edits of one session are in
\* flight together.
EditsStrictlyOrdered ==
  \A c \in 1..Len(calls) :
    InFlight(c) =>
      /\ calls[c].input = latest[calls[c].idx]
      /\ \A d \in 1..Len(calls) :
           (d # c /\ InFlight(d)) => calls[d].gen # calls[c].gen

\* C9: when an editAsset call succeeds, the draft at the edited index becomes
\* the image that call returned.
EditResultReplacesDraft ==
  [][\A c \in 1..Len(calls) :
       (calls[c].pc = "editing" /\ c <= Len(calls') /\ calls'[c].pc = "ok")
         => /\ drafts'[calls[c].idx] = calls'[c].result
            /\ calls'[c].result # calls[c].input]_vars

EditResultReplacesDraftWitness ==
  \E c \in 1..Len(calls) :
    /\ calls[c].pc = "ok"
    /\ calls[c].result # calls[c].input
    /\ drafts[calls[c].idx] = calls[c].result

\* C10: with a mask, the edit request is issued only after analyzeAnnotations
\* has returned and carries its output; without a mask analyzeAnnotations is
\* not invoked.
MaskInterpretedFirst ==
  \A c \in 1..Len(calls) :
    /\ calls[c].analysis = "pending" => calls[c].editReq = "none"
    /\ calls[c].editReq # "none" =>
         IF calls[c].mask
           THEN calls[c].analysis = "done" /\ calls[c].editReq = calls[c].improved
           ELSE calls[c].analysis = "none" /\ calls[c].editReq = calls[c].instr
    /\ (InFlight(c) /\ ~calls[c].mask) => calls[c].analysis = "none"
    /\ (InFlight(c) /\ calls[c].mask) => calls[c].analysis # "none"

MaskInterpretedFirstWitness ==
  \E c \in 1..Len(calls) :
    /\ calls[c].mask
    /\ calls[c].analysis = "done"
    /\ calls[c].editReq = RefinedInstruction
    /\ calls[c].pc = "editing"

\* C11: analyzeAnnotations always produces an instruction string: when its
\* service call errors it returns the user's raw instruction, it never fails.
AnalysisAlwaysYieldsInstruction ==
  \A c \in 1..Len(calls) : calls[c].analysis # "threw"

\* C12: a fetchLogoFromUrl call in which no source resolved to an image, the
\* call on an invalid URL included, ends with undefined; no exception reaches
\* the caller.
LogoUnresolvedIsUndefined ==
  /\ logoResult.kind # "threw"
  /\ (logoPc = "done"
      /\ \A k \in 1..Len(logoFetches) : logoFetches[k].result.kind # "image")
       => logoResult = Undefined

LogoInvalidUrlWitness ==
  /\ logoPc = "done"
  /\ logoAttempts = <<>>
  /\ logoResult = Undefined

\* C13: the sources are requested in the order 1 (favicon), 2 (icon by domain),
\* 3 (brand logo), each at most once; a request is made only after every
\* earlier one came back without an image, and the call returns the image of
\* the first source that resolved.
LogoSourcesInOrder ==
  /\ Len(logoAttempts) <= NumSources
  /\ \A k \in 1..Len(logoAttempts) : logoAttempts[k] = k
  /\ \A k \in 1..Len(logoFetches) :
       k < Len(logoAttempts) => logoFetches[k].result.kind # "image"
  /\ \A k \in 1..Len(logoFetches) :
       logoFetches[k].result.kind = "image"
         => /\ logoPc = "done"
            /\ k = Len(logoFetches)
            /\ logoResult = logoFetches[k].result
            /\ logoResult.value = logoAttempts[k]

LogoSecondSourceWitness ==
  /\ logoPc = "done"
  /\ logoAttempts = <<1, 2>>
  /\ logoResult.kind = "image"
  /\ logoResult.value = 2

\* C14: fetchImageToBase64 gives an image or undefined and never raises; it
\* gives an image only for a response that did not throw, is 2xx and carries
\* an image content-type.
FetchFailsClosed ==
  \A k \in 1..Len(logoFetches) :
    LET f == logoFetches[k]
    IN /\ f.result.kind \in {"image", "undefined"}
       /\ f.result.kind = "image"
            => /\ ~f.resp.threw
               /\ f.resp.ok
               /\ f.resp.contentType.present
               /\ f.resp.contentType.type = "image"

FetchNonImageTypeWitness ==
  \E k \in 1..Len(logoFetches) :
    /\ logoFetches[k].resp.ok
    /\ ~logoFetches[k].resp.threw
    /\ logoFetches[k].resp.blob
    /\ logoFetches[k].resp.contentType.present
    /\ logoFetches[k].resp.contentType.type = "text"
    /\ logoFetches[k].result = Undefined

\* C15: a paid operation called without a credential fails with the missing-key
\* error, and that call has sent no request.
NoKeyFailsBeforeNetwork ==
  [][(paidCall.pc = "idle" /\ paidCall'.pc # "idle" /\ ~apiKeyPresent)
       => /\ paidCall'.pc = "threw"
          /\ paidCall'.error = ApiKeyMissingMsg
          /\ netLog' = netLog]_vars

NoKeyFailsWitness ==
  /\ paidCall.pc = "threw"
  /\ paidCall.op = "finalizeAsset"
  /\ paidCall.error = ApiKeyMissingMsg
  /\ ~apiKeyPresent
  /\ netLog = <<>>

\* C16: a finalization whose response carries no image fails, adds nothing to
\* the gallery and leaves the drafts and the open editor as they are.
FinalizeWithoutImageIsVoid ==
  [][\A c \in 1..Len(finCalls) :
       (finCalls[c].pc = "pending" /\ finCalls'[c].pc # "pending"
        /\ finCalls'[c].respImage = 0)
         => /\ finCalls'[c].pc \in {"failed", "rejected"}
            /\ assets' = assets
            /\ drafts' = drafts
            /\ editingIndex' = editingIndex]_vars

FinalizeWithoutImageWitness ==
  \E c \in 1..Len(finCalls) :
    /\ finCalls[c].pc = "failed"
    /\ finCalls[c].respImage = 0
    /\ editingIndex = finCalls[c].idx
    /\ assets = <<>>

\* C17: an asset that is in the gallery stays in the gallery, unchanged,
\* whatever happens afterwards.
GalleryKeepsAssets ==
  [][\A i \in 1..Len(assets) :
       \E j \in 1..Len(assets') : assets'[j] = assets[i]]_vars

\* C18: a spell audit that reports no errors starts no edit: no edit request
\* is made for it, and the drafts are as they were.
CleanAuditStartsNoEdit ==
  [][\A c \in 1..Len(calls') :
       calls'[c].audit = "clean"
         => /\ calls'[c].pc = "clean"
            /\ calls'[c].input = NoImage
            /\ calls'[c].editReq = "none"
            /\ (c <= Len(calls) /\ calls[c].pc = "spellcheck")
                 => /\ drafts' = drafts
                    /\ isProcessingEdit' = isProcessingEdit]_vars

CleanAuditWitness ==
  \E c \in 1..Len(calls) :
    /\ calls[c].audit = "clean"
    /\ calls[c].pc = "clean"
    /\ editingIndex = calls[c].idx
    /\ drafts[calls[c].idx] = InitialDraft(calls[c].idx)

InlineImages(parts) ==
  SelectSeq(parts, LAMBDA q : q.kind = "inlineData")

Directives(parts) ==
  SelectSeq(parts, LAMBDA q : q.kind = "text" /\ q.ref = "fidelity")

\* C19: the finalize request of a brand with a logo holds exactly two inline
\* images, the draft then the logo, and exactly one fidelity directive; that of
\* a brand without a logo holds the draft only and no fidelity directive.
FinalizeRequestShape ==
  \A c \in 1..Len(finCalls) :
    LET parts == finCalls[c].parts
    IN IF dnaHasLogo
         THEN /\ Len(InlineImages(parts)) = 2
              /\ InlineImages(parts)[1].ref = "draft"
              /\ InlineImages(parts)[2].ref = "logo"
              /\ Len(Directives(parts)) = 1
         ELSE /\ Len(InlineImages(parts)) = 1
              /\ InlineImages(parts)[1].ref = "draft"
              /\ Len(Directives(parts)) = 0

FinalizeRequestWithLogoWitness ==
  /\ dnaHasLogo
  /\ \E c \in 1..Len(finCalls) : finCalls[c].pc = "pending"

\* C20: the script in the video request is the content of the script textarea
\* at the click on 'Generate Full Video', so the user's last edit and not the
\* generated script once the user has edited it.
VideoUsesEditedScript ==
  [][(~isGeneratingVideo /\ isGeneratingVideo')
       => /\ videoRequest'.script = editableScript
          /\ videoRequest'.keyframes = storyboard.keyframes]_vars

VideoUsesEditedScriptWitness ==
  /\ isGeneratingVideo
  /\ videoRequest.script = [by |-> "user", n |-> MaxScriptEdits]
  /\ storyboard.script.by = "generated"
  /\ videoRequest.script # storyboard.script

\* C21: a save stores the manually uploaded logo whenever the user has one
\* uploaded, and an automatically fetched logo only when there is none, in
\* every order of completion of the upload and the fetches.
ManualLogoWinsOnSave ==
  [][(bmPc = "generating" /\ bmLast'.outcome = "saved" /\ bmPc' = "view")
       => /\ manualLogo => savedDna'.logoImage = "manual"
          /\ savedDna'.logoImage \in AutoLogos => ~manualLogo]_vars

\* C22: a submit that ends with neither a manual upload nor an extracted logo
\* is refused with the warning: nothing is stored and the form stays open.
NoLogoBlocksSave ==
  [][(bmPc = "generating" /\ bmPc' # "generating" /\ bmLast'.outcome # "failed"
      /\ ~manualLogo /\ logoPreview = NoLogo /\ bmLast'.resultLogo = NoLogo)
       => /\ bmLast'.outcome = "blocked"
          /\ savedDna' = savedDna
          /\ bmPc' = "editing"
          /\ logoError' = "warning"]_vars

\* C23: whenever brand synthesis succeeds the brand is saved, with or without
\* a logo, and no error about the logo is shown.
LogoFailureNeverAborts ==
  [][(bmPc = "generating" /\ bmPc' # "generating" /\ bmLast'.outcome # "failed")
       => /\ bmLast'.outcome = "saved"
          /\ savedDna'.saved
          /\ logoError' = "none"]_vars

\* the requests the running operation has sent so far
RunRequests ==
  SubSeq(netLog, paidRun.start + 1, Len(netLog))

\* C24: within one call of generateDrafts, editAsset or finalizeAsset no
\* request is sent twice, and a response without payload ends in the result
\* of the call (editAsset and finalizeAsset throw, generateDrafts returns
\* without that image) with the request sent exactly once.
NoImplicitRetry ==
  (paidCall.op \in ImageOps)
    => /\ \A i, j \in 1..Len(RunRequests) :
            i < j => RunRequests[i] # RunRequests[j]
       /\ \A v \in paidRun.missing :
            Cardinality({k \in 1..Len(RunRequests) :
                           RunRequests[k] = Request(paidCall.op, "generateContent", v)}) = 1
       /\ (paidRun.pending = {} /\ paidRun.missing # {} /\ paidCall.pc # "idle"
           /\ paidCall.op # "generateDrafts")
            => /\ paidCall.pc = "threw"
               /\ paidCall.error \in {EditingFailedMsg, FinalizationFailedMsg}

NoImplicitRetryWitness ==
  /\ paidCall.op = "generateDrafts"
  /\ paidCall.pc = "returned"
  /\ paidRun.missing = {2, 3}
  /\ Len(RunRequests) = NumVariants

\* C25: the prompt built for a brand with no colours has no colour clause
\* with an empty value, in any category and for any variation.
NoEmptyColorClause ==
  (promptArgs # NoArgs /\ promptDna.colors = <<>>)
    => \A k \in 1..Len(promptOut) :
         promptOut[k].label \in ColorLabels => promptOut[k].value # <<>>

DraftsForPickedSubtype ==
  draftsRequest # NoRequest => draftsRequest.subtype = draftsRequest.clicked

\* C27: the reset of the ad workflow clears the storyboard and the video and
\* keeps the chat: the messages there were are still there, in the same order.
ResetKeepsChat ==
  [][(storyboard # NoStoryboard /\ storyboard' = NoStoryboard)
       => /\ videoUrl' = 0
          /\ Len(messages') >= Len(messages)
          /\ SubSeq(messages', 1, Len(messages)) = messages]_vars

ResetKeepsChatWitness ==
  /\ messages[Len(messages)] = "reset"
  /\ messages[1] = "greeting"
  /\ \E k \in 1..Len(messages) : messages[k] = "success"
  /\ storyboard = NoStoryboard
  /\ videoUrl = 0

\* C28: the stages of the ad workflow run in sequence: keyframe generation
\* starts only with the script of the script request that has returned, a
\* video is requested only with a storyboard (script and keyframes) in place
\* and no storyboard stage running, and a storyboard run that failed leaves no
\* storyboard.
AdStagesInSequence ==
  [][/\ (adStage'.pc = "keyframes")
          => /\ adStage.pc \in {"script", "keyframes"}
             /\ adStage'.script = [by |-> "generated", n |-> adStage'.n]
     /\ (~isGeneratingVideo /\ isGeneratingVideo')
          => /\ storyboard # NoStoryboard
             /\ storyboard.script.by = "generated"
             /\ storyboard.keyframes > 0
             /\ adStage.pc = "idle"
             /\ videoRequest'.keyframes = storyboard.keyframes
     /\ (adStage'.pc \in {"script", "keyframes"} \/ adStage'.outcome = "failed")
          => storyboard' = NoStoryboard]_vars

AdStagesInSequenceWitness ==
  /\ isGeneratingVideo
  /\ adStage.n = 2
  /\ adStage.outcome = "ok"
  /\ storyboard.keyframes = 2
  /\ \E k \in 1..Len(messages) : messages[k] = "error"

\* C30: the inspiration collection holds exactly the inspirations that were
\* added and not removed: a removed one never reappears and an analysed one is
\* never lost, also when an analysis started before a removal ends after it.
InspirationsReflectEdits ==
  {boardList[k] : k \in 1..Len(boardList)} = inspAdded \ inspRemoved

====
